---- MODULE Spec2Model ----
(***************************************************************************)
(* A model of backend/app.py of the contract compliance auditor: the       *)
(* clause segmenter, the scoring aggregator, the recommendation generator, *)
(* the feedback log and the upload / export-report request handlers.       *)
(*                                                                         *)
(* Strings are sequences of one-character strings.  Probabilities are      *)
(* integers in percent (0..100), weights are integers in tenths, so every  *)
(* comparison and the final truncation are exact.                          *)
(***************************************************************************)
EXTENDS Integers, Sequences, FiniteSets, TLC

VARIABLES
    seg_sents,      \* split_into_clauses: the sentences doc.sents yields
    seg_clauses,    \* split_into_clauses: the returned list, or NotRun
    seg_pc,
    rec_prompts,    \* generate_local_recommendation: its argument
    rec_responses,  \* what the remote API answers to the k-th call made
    rec_result,     \* the returned list and the calls made, or NotRun
    rec_pc,
    an_text,        \* analyze_clauses: its text argument
    an_env,         \* what the environment does during the call
    an_result,      \* the returned analysis, or NotRun
    an_pc,
    fb_file,        \* the content of feedback_log.txt
    fb_clock,       \* datetime.now()
    fb_last,        \* the last POST /feedback: its body and response status
    fb_count,       \* the requests handled
    reqs,           \* the POST /upload requests, each with its progress
    disk            \* the upload folder: saved name -> content

segVars == <<seg_sents, seg_clauses, seg_pc>>
recVars == <<rec_prompts, rec_responses, rec_result, rec_pc>>
anVars == <<an_text, an_env, an_result, an_pc>>
fbVars == <<fb_file, fb_clock, fb_last, fb_count>>
upVars == <<reqs, disk>>
vars == <<segVars, recVars, anVars, fbVars, upVars>>

NotRun == "NotRun"

(***************************************************************************)
(* String helpers (Python str methods used by the code).                   *)
(***************************************************************************)
SP == " "

\* n copies of character c
Chars(n, c) == [i \in 1..n |-> c]

RECURSIVE JoinFrom(_, _, _)
JoinFrom(parts, sep, i) ==
    IF i > Len(parts) THEN <<>>
    ELSE IF i = Len(parts) THEN parts[i]
    ELSE parts[i] \o sep \o JoinFrom(parts, sep, i + 1)

\* sep.join(parts)
Join(sep, parts) == JoinFrom(parts, sep, 1)

RECURSIVE LStrip(_)
LStrip(s) == IF s # <<>> /\ Head(s) = SP THEN LStrip(Tail(s)) ELSE s

RECURSIVE RStrip(_)
RStrip(s) ==
    IF s # <<>> /\ s[Len(s)] = SP THEN RStrip(SubSeq(s, 1, Len(s) - 1)) ELSE s

\* s.strip()
Strip(s) == RStrip(LStrip(s))

IsPrefix(p, s) == Len(p) <= Len(s) /\ SubSeq(s, 1, Len(p)) = p

\* s.replace(old, "") for a non-empty old: every occurrence, left to right
RECURSIVE RemoveAll(_, _)
RemoveAll(s, old) ==
    IF s = <<>> THEN <<>>
    ELSE IF IsPrefix(old, s) THEN RemoveAll(SubSeq(s, Len(old) + 1, Len(s)), old)
    ELSE <<Head(s)>> \o RemoveAll(Tail(s), old)

(***************************************************************************)
(* String constants of the code, and decimal formatting of small numbers.  *)
(***************************************************************************)
S_NoRecommendation ==
    <<"N", "o", " ", "r", "e", "c", "o", "m", "m", "e", "n", "d", "a",
    "t", "i", "o", "n">>
S_ErrorDuringAnalysis ==
    <<"E", "r", "r", "o", "r", " ", "d", "u", "r", "i", "n", "g", " ",
    "a", "n", "a", "l", "y", "s", "i", "s">>
T_Uncategorized ==
    <<"U", "n", "c", "a", "t", "e", "g", "o", "r", "i", "z", "e", "d">>
T_Indemnification ==
    <<"I", "n", "d", "e", "m", "n", "i", "f", "i", "c", "a", "t", "i",
    "o", "n">>
T_Termination ==
    <<"T", "e", "r", "m", "i", "n", "a", "t", "i", "o", "n">>
T_Confidentiality ==
    <<"C", "o", "n", "f", "i", "d", "e", "n", "t", "i", "a", "l", "i",
    "t", "y">>
T_PaymentTerms ==
    <<"P", "a", "y", "m", "e", "n", "t", " ", "T", "e", "r", "m", "s">>
T_Liability ==
    <<"L", "i", "a", "b", "i", "l", "i", "t", "y">>
T_GoverningLaw ==
    <<"G", "o", "v", "e", "r", "n", "i", "n", "g", " ", "L", "a", "w">>
S_Identified ==
    <<"I", "d", "e", "n", "t", "i", "f", "i", "e", "d", " ">>
S_Clauses ==
    <<" ", "c", "l", "a", "u", "s", "e", "s", ",", " ">>
S_RequireReview ==
    <<" ", "r", "e", "q", "u", "i", "r", "e", " ", "r", "e", "v", "i",
    "e", "w", ".", " ", "K", "e", "y", " ", "r", "i", "s", "k", "s", ":",
    " ">>
S_GeneralIssues ==
    <<"G", "e", "n", "e", "r", "a", "l", " ", "c", "o", "m", "p", "l",
    "i", "a", "n", "c", "e", " ", "i", "s", "s", "u", "e", "s">>
ErrorRecommendation ==
    <<"E", "r", "r", "o", "r", " ", "g", "e", "n", "e", "r", "a", "t",
    "i", "n", "g", " ", "r", "e", "c", "o", "m", "m", "e", "n", "d", "a",
    "t", "i", "o", "n">>
NoRecommendationGenerated ==
    <<"N", "o", " ", "r", "e", "c", "o", "m", "m", "e", "n", "d", "a",
    "t", "i", "o", "n", " ", "g", "e", "n", "e", "r", "a", "t", "e",
    "d">>

DigitChars == <<"0", "1", "2", "3", "4", "5", "6", "7", "8", "9">>

\* str(n) for a natural number n
RECURSIVE Digits(_)
Digits(n) ==
    IF n < 10 THEN <<DigitChars[n + 1]>>
    ELSE Digits(n \div 10) \o <<DigitChars[(n % 10) + 1]>>

\* old in s
RECURSIVE Contains(_, _)
Contains(s, old) ==
    IF Len(s) < Len(old) THEN FALSE
    ELSE IsPrefix(old, s) \/ Contains(Tail(s), old)

\* s[:n]
Take(s, n) == SubSeq(s, 1, IF Len(s) < n THEN Len(s) ELSE n)

Min(a, b) == IF a < b THEN a ELSE b

(***************************************************************************)
(* split_into_clauses (app.py 77-87).  The sentence boundary detector is   *)
(* an external model: its output, the list of sentence texts, is the input.*)
(***************************************************************************)
MinClauseLen == 40

MaxSents == 3

\* The sentence texts the inputs are drawn from: short ones that must be
\* buffered, one of exactly the threshold length, one just above it, ones
\* padded with whitespace (trimmed length at or below the threshold) and
\* one of whitespace only.
SentTexts ==
    { Chars(10, "a"),
      Chars(20, "b"),
      Chars(40, "c"),
      Chars(41, "d"),
      <<SP>> \o Chars(39, "e") \o <<SP>>,
      Chars(38, "f") \o <<SP, SP, SP>>,
      <<SP, SP>> }

RECURSIVE SeqsUpTo(_, _)
SeqsUpTo(S, n) ==
    IF n = 0 THEN { <<>> }
    ELSE LET shorter == SeqsUpTo(S, n - 1)
         IN  shorter \cup { Append(s, x) : s \in { t \in shorter : Len(t) = n - 1 }, x \in S }

\* the for loop of lines 80-84, from sentence i on
RECURSIVE SplitLoop(_, _, _, _)
SplitLoop(sents, i, clauses, buffer) ==
    IF i > Len(sents) THEN <<clauses, buffer>>
    ELSE LET buf == Append(buffer, sents[i])
         IN  IF Len(Join(<<SP>>, buf)) > MinClauseLen
             THEN SplitLoop(sents, i + 1, Append(clauses, Join(<<SP>>, buf)), <<>>)
             ELSE SplitLoop(sents, i + 1, clauses, buf)

\* lines 85-86: the rest of the buffer is flushed as a last clause
FlushRest(cb) ==
    IF cb[2] # <<>> THEN Append(cb[1], Join(<<SP>>, cb[2])) ELSE cb[1]

RECURSIVE MapStrip(_)
MapStrip(cs) == IF cs = <<>> THEN <<>> ELSE <<Strip(Head(cs))>> \o MapStrip(Tail(cs))

\* line 87 without its filter (a mutant of KeepLong)
KeepAll(cs) == MapStrip(cs)

\* line 87: [c.strip() for c in clauses if len(c.strip()) > 40]
KeepLong(cs) == SelectSeq(MapStrip(cs), LAMBDA c : Len(c) > MinClauseLen)

split_into_clauses(sents) == KeepLong(FlushRest(SplitLoop(sents, 1, <<>>, <<>>)))

IdleSeg == seg_sents = <<>> /\ seg_clauses = NotRun /\ seg_pc = "idle"

StartSeg ==
    /\ seg_sents \in SeqsUpTo(SentTexts, MaxSents)
    /\ seg_clauses = NotRun
    /\ seg_pc = "call"

Segment ==
    /\ seg_pc = "call"
    /\ seg_clauses' = split_into_clauses(seg_sents)
    /\ seg_pc' = "done"
    /\ UNCHANGED seg_sents
    /\ UNCHANGED <<recVars, anVars, fbVars, upVars>>

(***************************************************************************)
(* generate_local_recommendation (app.py 107-140).  The remote API is the  *)
(* environment: responses[k] is what the k-th call made gets, either an    *)
(* exception (connection error, HTTP error status, invalid JSON) or the    *)
(* decoded JSON object.                                                    *)
(***************************************************************************)
MaxPrompts == 2

Raise == [raise |-> TRUE]

Raises(x) == "raise" \in DOMAIN x

TextPart(t) == [candidates |-> <<[content |-> [parts |-> <<[text |-> t]>>]]>>]

\* texts the model may answer with: plain, padded, with markdown emphasis
\* and heading markers, and ones that are empty once those are removed
RecTexts ==
    { <<"o", "k">>,
      <<SP, "o", "k", SP>>,
      <<"*", "*", "o", "k", "*", "*">>,
      <<"#", SP, "o", "*", "k">>,
      <<"*", "*", SP, "#">>,
      <<>> }

Responses ==
    { Raise,
      [promptFeedback |-> "blocked"],
      [candidates |-> <<>>],
      [candidates |-> <<[finishReason |-> "SAFETY"]>>],
      [candidates |-> <<[content |-> [role |-> "model"]]>>],
      [candidates |-> <<[content |-> [parts |-> <<>>]]>>],
      [candidates |-> <<[content |-> [parts |-> <<[inlineData |-> "x"]>>]]>>] }
    \cup { TextPart(t) : t \in RecTexts }

Prompts == { "p1", "p2" }

\* lines 125-133: the text of the first part of the first candidate, or ""
ResponseText(result) ==
    LET candidates == IF "candidates" \in DOMAIN result THEN result.candidates ELSE <<>>
    IN  IF /\ candidates # <<>>
           /\ "content" \in DOMAIN candidates[1]
           /\ "parts" \in DOMAIN candidates[1].content
        THEN LET parts == candidates[1].content.parts
             IN  IF parts # <<>> /\ "text" \in DOMAIN parts[1]
                 THEN Strip(parts[1].text)
                 ELSE <<>>
        ELSE <<>>

\* lines 135-136
CleanRecommendation(recommendation) ==
    LET r == Strip(RemoveAll(RemoveAll(recommendation, <<"*", "*">>), <<"#">>))
    IN  IF r # <<>> THEN r ELSE NoRecommendationGenerated

\* the body of the for loop (lines 111-139) for one prompt, given the
\* outcome of its call
RecommendationFor(response) ==
    IF Raises(response) THEN ErrorRecommendation
    ELSE CleanRecommendation(ResponseText(response))

\* a mutant of RecLoop: the first failed call ends the loop
RECURSIVE RecLoopAbort(_, _, _, _)
RecLoopAbort(prompts, responses, i, acc) ==
    IF i > Len(prompts) THEN acc
    ELSE IF Raises(responses[i])
    THEN [recommendations |-> Append(acc.recommendations, ErrorRecommendation),
          calls |-> Append(acc.calls, prompts[i])]
    ELSE RecLoopAbort(prompts, responses, i + 1,
            [recommendations |-> Append(acc.recommendations, RecommendationFor(responses[i])),
             calls |-> Append(acc.calls, prompts[i])])

\* the for loop of lines 110-139 from prompt i on: one requests.post per
\* prompt, its recommendation appended whether or not the call raised
RECURSIVE RecLoop(_, _, _, _)
RecLoop(prompts, responses, i, acc) ==
    IF i > Len(prompts) THEN acc
    ELSE RecLoop(prompts, responses, i + 1,
            [recommendations |-> Append(acc.recommendations, RecommendationFor(responses[i])),
             calls |-> Append(acc.calls, prompts[i])])

\* returns the recommendations and, as its effect, the calls made
generate_local_recommendation(prompts, responses) ==
    RecLoop(prompts, responses, 1, [recommendations |-> <<>>, calls |-> <<>>])

IdleRec ==
    /\ rec_prompts = <<>> /\ rec_responses = <<>>
    /\ rec_result = NotRun /\ rec_pc = "idle"

StartRec ==
    /\ rec_prompts \in SeqsUpTo(Prompts, MaxPrompts)
    /\ rec_responses \in { r \in SeqsUpTo(Responses, MaxPrompts) : Len(r) = Len(rec_prompts) }
    /\ rec_result = NotRun
    /\ rec_pc = "call"

Recommend ==
    /\ rec_pc = "call"
    /\ rec_result' = generate_local_recommendation(rec_prompts, rec_responses)
    /\ rec_pc' = "done"
    /\ UNCHANGED <<rec_prompts, rec_responses>>
    /\ UNCHANGED <<segVars, anVars, fbVars, upVars>>

(***************************************************************************)
(* extract_parties (app.py 89-105).  The entity recogniser is external:    *)
(* its output doc.ents is an input, a list of [text, label, sent].         *)
(***************************************************************************)
LowerLabel(label) ==
    CASE label = "PERSON" -> "person"
      [] label = "ORG" -> "org"
      [] OTHER -> label

ContextLen == 50

\* the for loop of lines 93-100 from entity i on
RECURSIVE PartiesLoop(_, _, _, _, _)
PartiesLoop(text, ents, i, parties, seen_entities) ==
    IF i > Len(ents) THEN parties
    ELSE LET ent == ents[i]
         IN  IF ent.label \in {"PERSON", "ORG"} /\ ent.text \notin seen_entities
             THEN PartiesLoop(text, ents, i + 1,
                      Append(parties,
                             [name |-> ent.text,
                              type |-> LowerLabel(ent.label),
                              context |-> IF ent.sent # <<>> THEN Strip(ent.sent)
                                          ELSE Take(text, ContextLen)]),
                      seen_entities \cup {ent.text})
             ELSE PartiesLoop(text, ents, i + 1, parties, seen_entities)

\* nlp_raises: nlp(text) raises (the text is longer than the pipeline takes)
extract_parties(text, ents, nlp_raises) ==
    IF nlp_raises THEN <<>> ELSE PartiesLoop(text, ents, 1, <<>>, {})

(***************************************************************************)
(* The scoring aggregator of analyze_clauses (app.py 176-201).             *)
(* A probability is an integer in percent; a weight is in tenths.          *)
(***************************************************************************)
\* clause_labels.clause_names: the classifier's label names.  The file is
\* not among the sources; the taxonomy has labels beyond the five types of
\* the weight table, of which one stands here in the first position.
clause_names ==
    <<T_GoverningLaw, T_Indemnification, T_Termination, T_Confidentiality,
      T_PaymentTerms, T_Liability>>

NumLabels == Len(clause_names)

\* p > 0.5 (lines 183, 186, 187) and > 0.75 (lines 186, 187)
MidThreshold == 50
HighThreshold == 75

RECURSIVE SumSeq(_)
SumSeq(s) == IF s = <<>> THEN 0 ELSE Head(s) + SumSeq(Tail(s))

\* max(s) of a non-empty list
RECURSIVE MaxSeq(_)
MaxSeq(s) ==
    IF Len(s) = 1 THEN s[1]
    ELSE LET m == MaxSeq(Tail(s)) IN IF Head(s) > m THEN Head(s) ELSE m

\* line 183: the names of the labels whose probability exceeds 0.5
RECURSIVE LabelsFrom(_, _)
LabelsFrom(pred_probs, j) ==
    IF j > Len(pred_probs) THEN <<>>
    ELSE IF pred_probs[j] > MidThreshold
    THEN <<clause_names[j]>> \o LabelsFrom(pred_probs, j + 1)
    ELSE LabelsFrom(pred_probs, j + 1)

Labels(pred_probs) == LabelsFrom(pred_probs, 1)

\* line 184 compared with a threshold: sum / len > th, and 0.0 when empty
AvgAbove(pred_probs, th) ==
    IF pred_probs # <<>> THEN SumSeq(pred_probs) > th * Len(pred_probs) ELSE 0 > th

\* line 185
Score(pred_probs) == IF pred_probs # <<>> THEN MaxSeq(pred_probs) ELSE 0

\* a mutant of ComplianceStatus: the upper cut-off a point too low
ComplianceStatusGeq(pred_probs) ==
    IF AvgAbove(pred_probs, HighThreshold - 1) THEN "compliant"
    ELSE IF AvgAbove(pred_probs, MidThreshold) THEN "review_needed"
    ELSE "non_compliant"

\* line 186
ComplianceStatus(pred_probs) ==
    IF AvgAbove(pred_probs, HighThreshold) THEN "compliant"
    ELSE IF AvgAbove(pred_probs, MidThreshold) THEN "review_needed"
    ELSE "non_compliant"

\* a mutant of RiskLevel: the risk from the average, not the maximum
RiskLevelAvg(pred_probs) ==
    IF AvgAbove(pred_probs, HighThreshold) THEN "low"
    ELSE IF AvgAbove(pred_probs, MidThreshold) THEN "medium"
    ELSE "high"

\* line 187
RiskLevel(pred_probs) ==
    IF Score(pred_probs) > HighThreshold THEN "low"
    ELSE IF Score(pred_probs) > MidThreshold THEN "medium"
    ELSE "high"

\* line 190
ClauseType(pred_probs) ==
    IF Labels(pred_probs) # <<>> THEN Labels(pred_probs)[1] ELSE T_Uncategorized

\* lines 188-195, i counted from 0 as enumerate does
ClauseResult(i, text_clause, pred_probs, recommendations) ==
    [id |-> i + 1,
     type |-> ClauseType(pred_probs),
     text |-> text_clause,
     complianceStatus |-> ComplianceStatus(pred_probs),
     riskLevel |-> RiskLevel(pred_probs),
     recommendation |-> IF i < Len(recommendations) THEN recommendations[i + 1]
                        ELSE S_NoRecommendation]

\* the for loop of lines 182-195 over zip(clauses_text, predictions)
ResultClauses(clauses_text, predictions, recommendations) ==
    [k \in 1..Min(Len(clauses_text), Len(predictions)) |->
        ClauseResult(k - 1, clauses_text[k], predictions[k], recommendations)]

\* lines 177-180, in tenths
clause_weights ==
    [t \in {T_Indemnification, T_Termination, T_Confidentiality, T_PaymentTerms,
            T_Liability, T_Uncategorized} |->
        CASE t = T_Indemnification -> 20
          [] t = T_Termination -> 15
          [] t = T_Confidentiality -> 12
          [] t = T_PaymentTerms -> 10
          [] t = T_Liability -> 10
          [] t = T_Uncategorized -> 5]

\* the default of clause_weights.get(c["type"], 1.0), lines 198 and 200
DefaultWeight == 10

\* a mutant of WeightOf: every type not in the table weighs as Uncategorized
WeightOfOtherHalf(type) ==
    IF type \in DOMAIN clause_weights THEN clause_weights[type]
    ELSE clause_weights[T_Uncategorized]

\* clause_weights.get(type, 1.0)
WeightOf(type) ==
    IF type \in DOMAIN clause_weights THEN clause_weights[type] ELSE DefaultWeight

RECURSIVE WeightedSum(_, _, _)
WeightedSum(result_clauses, predictions, k) ==
    IF k > Min(Len(result_clauses), Len(predictions)) THEN 0
    ELSE MaxSeq(predictions[k]) * WeightOf(result_clauses[k].type)
         + WeightedSum(result_clauses, predictions, k + 1)

RECURSIVE WeightSum(_, _)
WeightSum(result_clauses, k) ==
    IF k > Len(result_clauses) THEN 0
    ELSE WeightOf(result_clauses[k].type) + WeightSum(result_clauses, k + 1)

\* a mutant of ComplianceScore: divided by the number of clauses, not by
\* the sum of their weights
ComplianceScoreByCount(result_clauses, predictions) ==
    IF result_clauses # <<>>
    THEN WeightedSum(result_clauses, predictions, 1) \div (10 * Len(result_clauses))
    ELSE 0

\* lines 197-201: int(100 * sum(max * weight) / sum(weight)), 0 without clauses
ComplianceScore(result_clauses, predictions) ==
    IF result_clauses # <<>>
    THEN WeightedSum(result_clauses, predictions, 1) \div WeightSum(result_clauses, 1)
    ELSE 0

(***************************************************************************)
(* The language pipeline nlp(text) is external.  It is stood in for by a   *)
(* deterministic function of the text: a sentence ends after a full stop   *)
(* (the blank that follows belongs to no sentence), and every capital      *)
(* letter is an entity, "A" an organisation, "B" a person, others dates.   *)
(***************************************************************************)
\* the sentences of text[from..]
RECURSIVE SentsFrom(_, _)
SentsFrom(text, from) ==
    IF from > Len(text) THEN <<>>
    ELSE LET stops == {i \in from..Len(text) : text[i] = "."}
         IN  IF stops = {} THEN <<SubSeq(text, from, Len(text))>>
             ELSE LET end == CHOOSE i \in stops : \A j \in stops : i <= j
                      next == IF end < Len(text) /\ text[end + 1] = SP
                              THEN end + 2 ELSE end + 1
                  IN  <<SubSeq(text, from, end)>> \o SentsFrom(text, next)

\* [sent.text for sent in nlp(text).sents]
DocSents(text) == SentsFrom(text, 1)

EntLabel(c) == CASE c = "A" -> "ORG" [] c = "B" -> "PERSON" [] OTHER -> "DATE"

RECURSIVE EntsOfSent(_, _)
EntsOfSent(sent, i) ==
    IF i > Len(sent) THEN <<>>
    ELSE IF sent[i] \in {"A", "B", "D"}
    THEN <<[text |-> <<sent[i]>>, label |-> EntLabel(sent[i]), sent |-> sent]>>
         \o EntsOfSent(sent, i + 1)
    ELSE EntsOfSent(sent, i + 1)

RECURSIVE EntsOfSents(_)
EntsOfSents(sents) ==
    IF sents = <<>> THEN <<>> ELSE EntsOfSent(Head(sents), 1) \o EntsOfSents(Tail(sents))

\* nlp(text).ents
DocEnts(text) == EntsOfSents(DocSents(text))

(***************************************************************************)
(* analyze_clauses (app.py 161-240).  env is what the environment does     *)
(* during the call: whether nlp or the classifier raises, the probability  *)
(* vectors the classifier returns (probs, the k-th row for the k-th        *)
(* clause), the remote API's answers to the successive calls (responses),  *)
(* the iteration order of a set of type names, which Python leaves open    *)
(* (one order or its reverse), and the clock.                              *)
(***************************************************************************)
None == <<>>
Some(v) == <<v>>

\* c if c is not old, else new: one character of s.replace(old, new)
ReplaceChar(s, old, new) == [i \in 1..Len(s) |-> IF s[i] = old THEN new ELSE s[i]]

\* line 163
Normalise(text) == ReplaceChar(ReplaceChar(Strip(text), "\n", SP), "\t", SP)

CycleAt(seq, k) == seq[((k - 1) % Len(seq)) + 1]

\* lines 169-171: one row of probabilities for each clause
Predictions(clauses_text, env) ==
    [k \in 1..Len(clauses_text) |-> CycleAt(env.probs, k)]

\* lines 142-149: one prompt for each clause
generate_clause_prompts(clauses, contract_type) ==
    [k \in 1..Len(clauses) |-> [clause |-> clauses[k], contract_type |-> contract_type]]

\* datetime.isoformat(): the fraction is left out when it is zero
IsoFormat(now) ==
    <<"T">> \o Digits(now.sec)
    \o (IF now.micro = 0 THEN <<>> ELSE <<".">> \o Digits(now.micro))

TypeOrder ==
    <<T_Uncategorized, T_Liability, T_GoverningLaw, T_Indemnification,
      T_Termination, T_Confidentiality, T_PaymentTerms>>

\* the order in which list(set) of line 154 yields the type names
HashOrder(reversed) ==
    IF reversed THEN [i \in 1..Len(TypeOrder) |-> TypeOrder[Len(TypeOrder) + 1 - i]]
    ELSE TypeOrder

\* lines 151-159
generate_overall_summary(clauses, reversed) ==
    LET total_clauses == Len(clauses)
        risky_clauses ==
            Cardinality({k \in 1..Len(clauses) : clauses[k].complianceStatus # "compliant"})
        areas == {clauses[k].type : k \in {j \in 1..Len(clauses) : clauses[j].riskLevel # "low"}}
        risk_areas == SelectSeq(HashOrder(reversed), LAMBDA t : t \in areas)
    IN  S_Identified \o Digits(total_clauses) \o S_Clauses \o Digits(risky_clauses)
        \o S_RequireReview
        \o (IF risk_areas # <<>> THEN Join(<<",", SP>>, Take(risk_areas, 3))
            ELSE S_GeneralIssues)
        \o <<".">>

MinOverallLen == 10

\* lines 208-211
Overall(result_clauses, response, reversed) ==
    LET overall ==
            generate_local_recommendation(<<"overall_summary_prompt">>, <<response>>)
                .recommendations[1]
    IN  IF \/ overall = <<>>
           \/ Len(Strip(overall)) < MinOverallLen
           \/ Contains(overall, S_NoRecommendation)
        THEN generate_overall_summary(result_clauses, reversed)
        ELSE overall

\* lines 228-240
ErrorResult(text, now) ==
    [fileName |-> None,
     fileSize |-> None,
     uploadedAt |-> IsoFormat(now) \o <<"Z">>,
     extractedText |-> text,
     clauses |-> <<>>,
     complianceScore |-> 0,
     totalClauses |-> 0,
     compliantClauses |-> 0,
     riskyClauses |-> 0,
     recommendations |-> S_ErrorDuringAnalysis,
     parties |-> <<>>]

\* lines 162-225, when nothing raises outside the helpers' own handlers
AnalysisResult(text, contract_type, env) ==
    LET parties == extract_parties(text, DocEnts(text), env.nlp_raises)
        split == split_into_clauses(DocSents(text))
        clauses_text == IF split = <<>> THEN <<text>> ELSE split
        predictions == Predictions(clauses_text, env)
        prompts == generate_clause_prompts(clauses_text, contract_type)
        recommendations ==
            generate_local_recommendation(
                prompts, [k \in 1..Len(prompts) |-> CycleAt(env.responses, k)])
                .recommendations
        result_clauses == ResultClauses(clauses_text, predictions, recommendations)
    IN  [fileName |-> None,
         fileSize |-> None,
         uploadedAt |-> IsoFormat(env.now) \o <<"Z">>,
         extractedText |-> text,
         clauses |-> result_clauses,
         complianceScore |-> ComplianceScore(result_clauses, predictions),
         totalClauses |-> Len(result_clauses),
         compliantClauses |->
             Cardinality({k \in 1..Len(result_clauses) :
                            result_clauses[k].complianceStatus = "compliant"}),
         riskyClauses |->
             Cardinality({k \in 1..Len(result_clauses) :
                            result_clauses[k].complianceStatus # "compliant"}),
         recommendations |->
             Overall(result_clauses, CycleAt(env.responses, Len(prompts) + 1),
                     env.reversed),
         parties |-> parties]

\* whether a step of lines 163-225 raises: nlp in split_into_clauses, the
\* tokenizer or the classifier, or max() of an empty row at line 198
AnalysisRaises(text, env) ==
    \/ env.nlp_raises
    \/ env.classify_raises
    \/ LET split == split_into_clauses(DocSents(text))
           clauses_text == IF split = <<>> THEN <<text>> ELSE split
       IN  \E k \in 1..Len(clauses_text) : CycleAt(env.probs, k) = <<>>

\* a mutant of analyze_clauses: no try/except around the body; the exception
\* leaves the function (the value Raise stands for it)
analyze_clauses_unguarded(text0, contract_type, env) ==
    LET text == Normalise(text0)
    IN  IF AnalysisRaises(text, env) THEN Raise
        ELSE AnalysisResult(text, contract_type, env)

analyze_clauses(text0, contract_type, env) ==
    LET text == Normalise(text0)
    IN  IF AnalysisRaises(text, env) THEN ErrorResult(text, env.now)
        ELSE AnalysisResult(text, contract_type, env)

(***************************************************************************)
(* analyze_clauses as a step: its arguments and the environment's          *)
(* behaviour are chosen initially, the step computes the result.           *)
(***************************************************************************)
MaxClauses == 2

\* every vector over the labels, for a text of one clause
AllVectors == [1..NumLabels -> {0, 50, 60, 75, 100}]

OneHot(k, p) == [j \in 1..NumLabels |-> IF j = k THEN p ELSE 0]

\* vectors for texts of several clauses: one label (or none) above the
\* threshold, and the empty row
ScoreVectors == { OneHot(k, p) : k \in 1..NumLabels, p \in {0, 60, 100} } \cup { <<>> }

\* a text of n sentences, each a clause of its own
RECURSIVE ClauseDoc(_)
ClauseDoc(n) ==
    IF n = 1 THEN Chars(41, "d") \o <<".">>
    ELSE ClauseDoc(n - 1) \o <<SP>> \o Chars(41, "d") \o <<".">>

Env(probs, responses, nlp_raises, classify_raises, now) ==
    [probs |-> probs, responses |-> responses, nlp_raises |-> nlp_raises,
     classify_raises |-> classify_raises, reversed |-> FALSE, now |-> now]

Noon == [sec |-> 12, micro |-> 0]

ScoreEnvs(n) ==
    { Env(probs, <<TextPart(<<"o", "k">>)>>, FALSE, FALSE, Noon) :
        probs \in { s \in SeqsUpTo(ScoreVectors, n) : Len(s) = n }
                  \cup (IF n = 1 THEN { <<v>> : v \in AllVectors } ELSE {}) }
    \cup { Env(<<OneHot(1, 100)>>, <<TextPart(<<"o", "k">>)>>, FALSE, TRUE, Noon) }
    \cup (IF n = 2
          THEN { [Env(<<OneHot(1, 100), OneHot(2, 100)>>, <<TextPart(<<"o", "k">>)>>,
                      FALSE, FALSE, Noon) EXCEPT !.reversed = TRUE] }
          ELSE {})

IdleAn ==
    /\ an_text = <<>> /\ an_env = NotRun /\ an_result = NotRun /\ an_pc = "idle"

StartAn ==
    /\ \E n \in 1..MaxClauses :
          /\ an_text = ClauseDoc(n)
          /\ an_env \in ScoreEnvs(n)
    /\ an_result = NotRun
    /\ an_pc = "call"

Analyze ==
    /\ an_pc = "call"
    /\ an_result' = analyze_clauses(an_text, "general contract", an_env)
    /\ an_pc' = "done"
    /\ UNCHANGED <<an_text, an_env>>
    /\ UNCHANGED <<segVars, recVars, fbVars, upVars>>

(***************************************************************************)
(* submit_feedback (app.py 340-349).  fb_file is the content of            *)
(* feedback_log.txt.  A request body is a JSON value, or no JSON at all.   *)
(***************************************************************************)
MaxPosts == 2

NL == "\n"

JsonInt(n) == [type |-> "int", n |-> n]
JsonStr(chars) == [type |-> "str", chars |-> chars]
JsonDict(key, value) == [type |-> "dict", key |-> key, value |-> value]

Payloads ==
    { JsonDict(<<"r">>, JsonInt(5)),
      JsonDict(<<"c">>, JsonStr(<<"a", NL, "b">>)),
      JsonStr(<<"o", "k">>),
      JsonStr(<<"a", NL, "b">>),
      JsonInt(5),
      [type |-> "null"],
      [type |-> "invalid"] }

\* repr() of a str without quotes in it: quoted, a line break escaped
RECURSIVE Escaped(_)
Escaped(chars) ==
    IF chars = <<>> THEN <<>>
    ELSE (IF Head(chars) = NL THEN <<"\\", "n">> ELSE <<Head(chars)>>) \o Escaped(Tail(chars))

PyRepr(data) ==
    CASE data.type = "int" -> Digits(data.n)
      [] data.type = "str" -> <<"'">> \o Escaped(data.chars) \o <<"'">>
      [] OTHER -> <<"N", "o", "n", "e">>

\* str(data), as the f-string of line 345 formats it: a str as it is, a
\* dict with the repr() of its key and value
PyStr(data) ==
    CASE data.type = "str" -> data.chars
      [] data.type = "dict" ->
            <<"{">> \o PyRepr(JsonStr(data.key)) \o <<":", SP>> \o PyRepr(data.value) \o <<"}">>
      [] OTHER -> PyRepr(data)

\* line 345: what one request writes
FeedbackLine(now, data) == IsoFormat(now) \o <<SP, "-", SP>> \o PyStr(data) \o <<NL>>

IdleFb == fb_file = <<>> /\ fb_clock = 0 /\ fb_last = NotRun /\ fb_count = -1

StartFb == fb_file = <<>> /\ fb_clock = 0 /\ fb_last = NotRun /\ fb_count = 0

\* one POST /feedback: get_json raises on a body that is no JSON, open()
\* may fail; both give 500 and write nothing
submit_feedback(data, micro, open_fails) ==
    /\ fb_count >= 0
    /\ fb_count < MaxPosts
    /\ fb_count' = fb_count + 1
    /\ fb_clock' = fb_clock + 1
    /\ IF data.type = "invalid" \/ open_fails
       THEN /\ fb_file' = fb_file
            /\ fb_last' = [data |-> data, status |-> 500, now |-> None]
       ELSE LET now == [sec |-> fb_clock, micro |-> micro]
            IN  /\ fb_file' = fb_file \o FeedbackLine(now, data)
                /\ fb_last' = [data |-> data, status |-> 200, now |-> Some(now)]
    /\ UNCHANGED <<segVars, recVars, anVars, upVars>>

Feedback ==
    \E data \in Payloads, micro \in {0, 5}, open_fails \in BOOLEAN :
        submit_feedback(data, micro, open_fails)

(***************************************************************************)
(* upload_file (app.py 293-319) and its helpers.  The upload folder is     *)
(* the variable disk, a function from the name of a saved file to its      *)
(* content.  A file's content is its kind (plain text, a PDF document, or  *)
(* bytes that are neither), the text it holds and its size in bytes.       *)
(***************************************************************************)
S_Uploads ==
    <<"U", "p", "l", "o", "a", "d", "s">>
S_UploadsUrl ==
    <<"h", "t", "t", "p", ":", "/", "/", "l", "o", "c", "a", "l", "h",
    "o", "s", "t", ":", "5", "0", "0", "0", "/", "u", "p", "l", "o", "a",
    "d", "s", "/">>
S_DotPdf ==
    <<".", "p", "d", "f">>
S_NoFilePart ==
    <<"N", "o", " ", "f", "i", "l", "e", " ", "p", "a", "r", "t">>
S_NoSelectedFile ==
    <<"N", "o", " ", "s", "e", "l", "e", "c", "t", "e", "d", " ", "f",
    "i", "l", "e">>
S_FileTypeNotAllowed ==
    <<"F", "i", "l", "e", " ", "t", "y", "p", "e", " ", "n", "o", "t",
    " ", "a", "l", "l", "o", "w", "e", "d">>
S_UtcOffset ==
    <<"+", "0", "0", ":", "0", "0">>

EndsWith(s, suffix) ==
    Len(suffix) <= Len(s) /\ SubSeq(s, Len(s) - Len(suffix) + 1, Len(s)) = suffix

\* s.lower(), for the capitals that occur in the file names
Lower(s) ==
    [i \in 1..Len(s) |->
        CASE s[i] = "P" -> "p" [] s[i] = "D" -> "d" [] s[i] = "F" -> "f"
          [] s[i] = "T" -> "t" [] s[i] = "X" -> "x" [] OTHER -> s[i]]

\* filename.rsplit('.', 1)[1]: what follows the last dot
AfterLastDot(filename) ==
    LET dots == {i \in 1..Len(filename) : filename[i] = "."}
        last == CHOOSE i \in dots : \A j \in dots : j <= i
    IN  SubSeq(filename, last + 1, Len(filename))

ALLOWED_EXTENSIONS == { <<"p", "d", "f">>, <<"d", "o", "c", "x">>, <<"t", "x", "t">> }

\* lines 60-61
allowed_file(filename) ==
    /\ \E i \in 1..Len(filename) : filename[i] = "."
    /\ Lower(AfterLastDot(filename)) \in ALLOWED_EXTENSIONS

RECURSIVE StripDots(_)
StripDots(s) ==
    IF s # <<>> /\ Head(s) \in {".", "_"} THEN StripDots(Tail(s))
    ELSE IF s # <<>> /\ s[Len(s)] \in {".", "_"} THEN StripDots(SubSeq(s, 1, Len(s) - 1))
    ELSE s

\* werkzeug's secure_filename (line 302): a path separator becomes "_",
\* characters outside letters, digits, "_", "." and "-" are dropped, dots
\* and underscores at both ends are stripped
secure_filename(filename) ==
    StripDots(SelectSeq(ReplaceChar(Strip(ReplaceChar(filename, "/", SP)), SP, "_"),
                        LAMBDA c : c \in {"a", "b", "c", "d", "e", "f", "o", "p", "t", "x",
                                          "D", "F", "P", "T", "X", ".", "_", "-"}))

TextFile(text) == [kind |-> "text", text |-> text, size |-> Len(text)]
PdfFile(text) == [kind |-> "pdf", text |-> text, size |-> 2 * Len(text) + 9]
BinaryFile == [kind |-> "binary", text |-> <<>>, size |-> 7]

\* lines 64-70 raise: pdfplumber on a file that is no PDF, or a read as
\* UTF-8 of bytes that are no text, or a file that is not there
ExtractRaises(filename, files) ==
    \/ filename \notin DOMAIN files
    \/ IF EndsWith(S_Uploads \o <<"/">> \o filename, S_DotPdf) THEN files[filename].kind # "pdf"
       ELSE files[filename].kind # "text"

\* lines 63-75, of the file saved as filename
extract_text(filename, files) ==
    IF ExtractRaises(filename, files) THEN <<>> ELSE files[filename].text

\* file.save (line 305): the file is created or overwritten
SaveFile(files, filename, content) ==
    [n \in DOMAIN files \cup {filename} |-> IF n = filename THEN content ELSE files[n]]

NewRequest(has_file, filename, content, env) ==
    [has_file |-> has_file, filename |-> filename, content |-> content, env |-> env,
     pc |-> "new", saved_as |-> None, raised |-> {}, analysis |-> None,
     response |-> None, export |-> None]

ErrorResponse(status, message) == [status |-> status, body |-> [error |-> message]]

\* request.form.get('contract_type', 'general contract'); the form field is
\* not sent
ContractType == "general contract"

\* lines 296-305: the checks of the request, then the file is saved
Save(r) ==
    LET q == reqs[r]
    IN  /\ q.pc = "new"
        /\ IF ~q.has_file
           THEN /\ reqs' = [reqs EXCEPT ![r].pc = "done",
                               ![r].response = Some(ErrorResponse(400, S_NoFilePart))]
                /\ UNCHANGED disk
           ELSE IF q.filename = <<>>
           THEN /\ reqs' = [reqs EXCEPT ![r].pc = "done",
                               ![r].response = Some(ErrorResponse(400, S_NoSelectedFile))]
                /\ UNCHANGED disk
           ELSE IF ~allowed_file(q.filename)
           THEN /\ reqs' = [reqs EXCEPT ![r].pc = "done",
                               ![r].response = Some(ErrorResponse(400, S_FileTypeNotAllowed))]
                /\ UNCHANGED disk
           ELSE IF q.env.save_raises
           THEN /\ reqs' = [reqs EXCEPT ![r].pc = "done",
                               ![r].raised = {"save"},
                               ![r].response = Some(ErrorResponse(500, <<"s", "a", "v", "e">>))]
                /\ UNCHANGED disk
           ELSE /\ disk' = SaveFile(disk, secure_filename(q.filename), q.content)
                /\ reqs' = [reqs EXCEPT ![r].pc = "saved",
                               ![r].saved_as = Some(secure_filename(q.filename))]
        /\ UNCHANGED <<segVars, recVars, anVars, fbVars>>

\* the steps that raised inside lines 308-309; the remote calls are made
\* when neither nlp nor the classifier raised before them
RaisedIn(filename, files, env) ==
    LET text == Normalise(extract_text(filename, files))
        split == split_into_clauses(DocSents(text))
        clauses_text == IF split = <<>> THEN <<text>> ELSE split
    IN  (IF ExtractRaises(filename, files) THEN {"extract"} ELSE {})
        \cup (IF env.nlp_raises THEN {"parties"} ELSE {})
        \cup (IF AnalysisRaises(text, env) THEN {"analysis"} ELSE {})
        \cup (IF /\ ~env.nlp_raises /\ ~env.classify_raises
                 /\ \E k \in 1..Len(clauses_text) : Raises(CycleAt(env.responses, k))
              THEN {"recommendation"} ELSE {})

\* lines 307-309: the saved file is read and analysed; an exception that
\* reaches upload_file is answered with 500 (lines 316-318)
ExtractAndAnalyze(r) ==
    LET q == reqs[r]
        text == extract_text(q.saved_as[1], disk)
        analysis == analyze_clauses(text, ContractType, q.env)
    IN  /\ q.pc = "saved"
        /\ IF Raises(analysis)
           THEN reqs' = [reqs EXCEPT ![r].pc = "done",
                            ![r].raised = RaisedIn(q.saved_as[1], disk, q.env),
                            ![r].response = Some(ErrorResponse(500, <<"e", "x", "c">>))]
           ELSE reqs' = [reqs EXCEPT ![r].pc = "analysed",
                            ![r].raised = RaisedIn(q.saved_as[1], disk, q.env),
                            ![r].analysis = Some(analysis)]
        /\ UNCHANGED disk
        /\ UNCHANGED <<segVars, recVars, anVars, fbVars>>

\* lines 310-315: the file's name, its size on disk and its URL are set
Respond(r) ==
    LET q == reqs[r]
        filename == q.saved_as[1]
        analysis == [k \in DOMAIN q.analysis[1] \cup {"originalFileUrl"} |->
                        CASE k = "fileName" -> Some(filename)
                          [] k = "fileSize" -> Some(disk[filename].size)
                          [] k = "originalFileUrl" -> S_UploadsUrl \o filename
                          [] OTHER -> q.analysis[1][k]]
    IN  /\ q.pc = "analysed"
        /\ reqs' = [reqs EXCEPT ![r].pc = "done",
                       ![r].analysis = None,
                       ![r].response = Some([status |-> 200, body |-> analysis])]
        /\ UNCHANGED disk
        /\ UNCHANGED <<segVars, recVars, anVars, fbVars>>

(***************************************************************************)
(* export_report and generate_pdf_report (app.py 242-288, 321-338).  The   *)
(* JSON a client posts back is the analysis as /upload returned it: JSON   *)
(* keeps strings, integers, lists, objects and null as they are.           *)
(* Paragraph (reportlab) reads its text as markup and raises on a tag that *)
(* is left open.                                                           *)
(***************************************************************************)
RequiredKeys ==
    {"fileName", "fileSize", "uploadedAt", "complianceScore", "totalClauses",
     "compliantClauses", "riskyClauses", "parties", "recommendations", "clauses"}

ClauseKeys == {"id", "type", "complianceStatus", "riskLevel", "text", "recommendation"}

\* s.replace(old, new) for a character old and a string new
RECURSIVE ReplaceCharWith(_, _, _)
ReplaceCharWith(s, old, new) ==
    IF s = <<>> THEN <<>>
    ELSE (IF Head(s) = old THEN new ELSE <<Head(s)>>) \o ReplaceCharWith(Tail(s), old, new)

IsDigit(c) == \E i \in 1..Len(DigitChars) : DigitChars[i] = c

\* datetime.fromisoformat accepts s: a time, with or without a fraction,
\* and a UTC offset
ParsesAsIso(s) ==
    /\ EndsWith(s, S_UtcOffset)
    /\ LET core == SubSeq(s, 1, Len(s) - Len(S_UtcOffset))
           dots == {i \in 1..Len(core) : core[i] = "."}
       IN  /\ Len(core) >= 2
           /\ core[1] = "T"
           /\ IsDigit(core[2]) /\ IsDigit(core[Len(core)])
           /\ Cardinality(dots) <= 1
           /\ \A i \in 2..Len(core) : IsDigit(core[i]) \/ i \in dots

\* Paragraph(text, style) raises: a tag of the text is not closed
ParagraphRaises(text) ==
    Contains(text, <<"<", "b", ">">>) /\ ~Contains(text, <<"<", "/", "b", ">">>)

\* lines 244-283 raise: a key is missing, the size is null, the timestamp
\* does not parse, or a text is no well-formed markup
PdfReportRaises(analysis) ==
    \/ ~(RequiredKeys \subseteq DOMAIN analysis)
    \/ analysis.fileSize = None
    \/ ~ParsesAsIso(ReplaceCharWith(analysis.uploadedAt, "Z", S_UtcOffset))
    \/ analysis.fileName # None /\ ParagraphRaises(analysis.fileName[1])
    \/ \E k \in 1..Len(analysis.parties) :
          \/ ~({"name", "type", "context"} \subseteq DOMAIN analysis.parties[k])
          \/ ParagraphRaises(analysis.parties[k].name)
          \/ ParagraphRaises(analysis.parties[k].context)
    \/ ParagraphRaises(analysis.recommendations)
    \/ \E k \in 1..Len(analysis.clauses) :
          \/ ~(ClauseKeys \subseteq DOMAIN analysis.clauses[k])
          \/ ParagraphRaises(analysis.clauses[k].type)
          \/ ParagraphRaises(analysis.clauses[k].text)
          \/ ParagraphRaises(analysis.clauses[k].recommendation)

\* lines 242-288: the flowables of the document that is built, or Raise
generate_pdf_report(analysis) ==
    IF PdfReportRaises(analysis) THEN Raise
    ELSE [elements |->
            18 + (IF analysis.parties # <<>> THEN Len(analysis.parties) ELSE 1)
               + 6 * Len(analysis.clauses)]

\* lines 323-338
export_report(analysis) ==
    IF "fileName" \notin DOMAIN analysis
    THEN [status |-> 400, pdf |-> 0]
    ELSE LET pdf_buffer == generate_pdf_report(analysis)
         IN  IF Raises(pdf_buffer) THEN [status |-> 500, pdf |-> 0]
             ELSE [status |-> 200, pdf |-> pdf_buffer.elements]

\* the client posts the analysis it got from /upload to /export-report
Export(r) ==
    LET q == reqs[r]
    IN  /\ q.pc = "done"
        /\ q.response[1].status = 200
        /\ reqs' = [reqs EXCEPT ![r].pc = "exported",
                       ![r].export = Some(export_report(q.response[1].body))]
        /\ UNCHANGED disk
        /\ UNCHANGED <<segVars, recVars, anVars, fbVars>>

(***************************************************************************)
(* The requests the upload specifications start from.                      *)
(***************************************************************************)
ShortDoc == <<"a", "b", ".">>
LongDoc == Chars(41, "d") \o <<".", SP, "A">> \o Chars(41, "e") \o <<".">>
TagDoc == <<"<", "b", ">", "c", ".">>
NamesDoc == <<SP, "A", NL, "B", SP, "A", ".">>

Contents ==
    { TextFile(d) : d \in { ShortDoc, LongDoc, TagDoc, NamesDoc, <<>> } }
    \cup { PdfFile(LongDoc), BinaryFile }

FileNames ==
    { <<>>,
      <<"a">>,
      <<"a", ".", "e", "x", "e">>,
      <<"a", ".", "t", "x", "t">>,
      <<"a", ".", "p", "d", "f">>,
      <<"a", ".", "P", "D", "F">>,
      <<"x", "/", "a", ".", "t", "x", "t">>,
      <<".", "d", "o", "c", "x">> }

LongAnswer == <<"r", "e", "v", "i", "s", "e", SP, "t", "e", "r", "m", "s", ".">>

UploadEnv(env, save_raises) ==
    [k \in DOMAIN env \cup {"save_raises"} |->
        IF k = "save_raises" THEN save_raises ELSE env[k]]

UploadEnvs ==
    { UploadEnv(Env(probs, responses, nlp_raises, classify_raises, now), save_raises) :
        probs \in { <<OneHot(2, 100)>>,
                    <<[j \in 1..NumLabels |-> 100], OneHot(1, 60)>>,
                    << <<>> >> },
        responses \in { <<TextPart(LongAnswer)>>, <<Raise>>,
                        <<TextPart(<<"o", "k">>), Raise>> },
        nlp_raises \in BOOLEAN, classify_raises \in BOOLEAN,
        now \in { Noon, [sec |-> 7, micro |-> 5] },
        save_raises \in BOOLEAN }

CalmEnv == UploadEnv(Env(<<OneHot(2, 100)>>, <<TextPart(LongAnswer)>>, FALSE, FALSE, Noon), FALSE)

IdleUp == reqs = <<>> /\ disk = <<>>

\* one request against an empty upload folder
StartUpload ==
    /\ disk = <<>>
    /\ \E q \in { NewRequest(TRUE, n, c, env) :
                     n \in FileNames, c \in Contents, env \in UploadEnvs }
                \cup { NewRequest(FALSE, <<>>, BinaryFile, CalmEnv) } :
          reqs = <<q>>

\* requests served at the same time, by a thread each
ConcurrentRequests == {1, 2}

StartConcurrent ==
    /\ disk = <<>>
    /\ reqs \in [ConcurrentRequests ->
                   { NewRequest(TRUE, n, c, CalmEnv) :
                       n \in { <<"a", ".", "t", "x", "t">>, <<"x", "/", "a", ".", "t", "x", "t">> },
                       c \in { TextFile(ShortDoc), TextFile(NamesDoc) } }]

(***************************************************************************)
(* Specifications.                                                         *)
(***************************************************************************)
InitSeg == StartSeg /\ IdleRec /\ IdleAn /\ IdleFb /\ IdleUp
NextSeg == Segment
SpecSeg == InitSeg /\ [][NextSeg]_vars

InitRec == IdleSeg /\ StartRec /\ IdleAn /\ IdleFb /\ IdleUp
NextRec == Recommend
SpecRec == InitRec /\ [][NextRec]_vars

InitScore == IdleSeg /\ IdleRec /\ StartAn /\ IdleFb /\ IdleUp
NextScore == Analyze
SpecScore == InitScore /\ [][NextScore]_vars

InitFeedback == IdleSeg /\ IdleRec /\ IdleAn /\ StartFb /\ IdleUp
NextFeedback == Feedback
SpecFeedback == InitFeedback /\ [][NextFeedback]_vars

NextUpload ==
    \/ \E r \in DOMAIN reqs : Save(r)
    \/ \E r \in DOMAIN reqs : ExtractAndAnalyze(r)
    \/ \E r \in DOMAIN reqs : Respond(r)
    \/ \E r \in DOMAIN reqs : Export(r)

InitUpload == IdleSeg /\ IdleRec /\ IdleAn /\ IdleFb /\ StartUpload
SpecUpload == InitUpload /\ [][NextUpload]_vars

InitConcurrent == IdleSeg /\ IdleRec /\ IdleAn /\ IdleFb /\ StartConcurrent
SpecConcurrent == InitConcurrent /\ [][NextUpload]_vars

(***************************************************************************)
(* Properties.                                                             *)
(***************************************************************************)
AnDone == an_pc = "done"

\* the row of probabilities the classifier gave for clause k
RowOf(k) == CycleAt(an_env.probs, k)

\* C2: the complianceScore analyze_clauses returns is an integer from 0 to
\* 100, and it is 0 when the result has no clauses.
C2_ScoreInRange ==
    AnDone =>
        /\ an_result.complianceScore \in 0..100
        /\ (Len(an_result.clauses) = 0 => an_result.complianceScore = 0)

\* C2 witness: a call whose result has no clauses (a row was empty, so the
\* aggregation raised) and one cannot tell from a crash: the score is 0.
C2_Witness ==
    /\ AnDone
    /\ ~an_env.classify_raises
    /\ Len(an_result.clauses) = 0
    /\ an_result.complianceScore = 0

\* the claimed cut-offs, as fractions: average of row p above 3/4, above 1/2
ClaimedStatus(p) ==
    IF 4 * SumSeq(p) > 3 * 100 * Len(p) THEN "compliant"
    ELSE IF 2 * SumSeq(p) > 100 * Len(p) THEN "review_needed"
    ELSE "non_compliant"

ClaimedRisk(p) ==
    IF \E j \in 1..Len(p) : 4 * p[j] > 3 * 100 THEN "low"
    ELSE IF \E j \in 1..Len(p) : 2 * p[j] > 100 THEN "medium"
    ELSE "high"

\* C3: every clause gets the one compliance status its average probability
\* gives (> 0.75 compliant, else > 0.5 review_needed, else non_compliant)
\* and the one risk level its maximum gives (> 0.75 low, else > 0.5 medium,
\* else high).
C3_StatusAndRiskByThreshold ==
    AnDone =>
        \A k \in 1..Len(an_result.clauses) :
            LET c == an_result.clauses[k]
            IN  /\ c.complianceStatus = ClaimedStatus(RowOf(k))
                /\ c.riskLevel = ClaimedRisk(RowOf(k))

\* C3 witness: a clause whose average and maximum both exceed 0.75.
C3_Witness ==
    /\ AnDone
    /\ \E k \in 1..Len(an_result.clauses) :
          /\ 4 * SumSeq(RowOf(k)) > 3 * 100 * Len(RowOf(k))
          /\ an_result.clauses[k].complianceStatus = "compliant"
          /\ an_result.clauses[k].riskLevel = "low"

\* the weight table of the claim, in tenths, with `other` for a type that
\* is neither in the table nor Uncategorized
ClaimedWeight(type, other) ==
    CASE type = T_Indemnification -> 20
      [] type = T_Termination -> 15
      [] type = T_Confidentiality -> 12
      [] type = T_PaymentTerms -> 10
      [] type = T_Liability -> 10
      [] type = T_Uncategorized -> 5
      [] OTHER -> other

RECURSIVE ClaimedNumerator(_, _)
ClaimedNumerator(k, other) ==
    IF k > Len(an_result.clauses) THEN 0
    ELSE MaxSeq(RowOf(k)) * ClaimedWeight(an_result.clauses[k].type, other)
         + ClaimedNumerator(k + 1, other)

RECURSIVE ClaimedDenominator(_, _)
ClaimedDenominator(k, other) ==
    IF k > Len(an_result.clauses) THEN 0
    ELSE ClaimedWeight(an_result.clauses[k].type, other) + ClaimedDenominator(k + 1, other)

ScoreIsWeightedMean(other) ==
    (AnDone /\ an_result.clauses # <<>>) =>
        an_result.complianceScore
            = ClaimedNumerator(1, other) \div ClaimedDenominator(1, other)

\* C7 as claimed: the score is the truncated weighted mean of the maxima,
\* a type outside the table weighing 0.5.
C7_ScoreWithOtherHalf == ScoreIsWeightedMean(5)

\* C7 as amended: the same, a type outside the table (other than
\* Uncategorized, 0.5) weighing 1.0.
C7_ScoreWithOtherOne == ScoreIsWeightedMean(10)

\* C7 witness: a result of two clauses, one of a type outside the table.
C7_Witness ==
    /\ AnDone
    /\ Len(an_result.clauses) = 2
    /\ an_result.clauses[1].type = T_GoverningLaw
    /\ an_result.clauses[2].type = T_Indemnification
    /\ an_result.complianceScore = 73

\* C10: compliant implies low risk, review_needed implies low or medium
\* risk, and a clause is Uncategorized exactly when its risk is high.
C10_LabelsConsistent ==
    AnDone =>
        \A k \in 1..Len(an_result.clauses) :
            LET c == an_result.clauses[k]
            IN  RowOf(k) # <<>> =>
                    /\ (c.complianceStatus = "compliant" => c.riskLevel = "low")
                    /\ (c.complianceStatus = "review_needed"
                            => c.riskLevel \in {"low", "medium"})
                    /\ (c.type = T_Uncategorized <=> c.riskLevel = "high")

\* C10 witness: a clause under review whose risk is low (one label is
\* certain, the average is not above 0.75).
C10_Witness ==
    /\ AnDone
    /\ \E k \in 1..Len(an_result.clauses) :
          /\ an_result.clauses[k].complianceStatus = "review_needed"
          /\ an_result.clauses[k].riskLevel = "low"
          /\ an_result.clauses[k].type # T_Uncategorized

\* clauses[k..] are the trimmed joins of successive runs of sents[from..]
RECURSIVE AreRunsOf(_, _, _, _)
AreRunsOf(clauses, k, sents, from) ==
    \/ k > Len(clauses)
    \/ \E a \in from..Len(sents) : \E b \in a..Len(sents) :
          /\ clauses[k] = Strip(Join(<<SP>>, SubSeq(sents, a, b)))
          /\ AreRunsOf(clauses, k + 1, sents, b + 1)

\* C4: every clause split_into_clauses returns is longer than 40 characters
\* once trimmed, and the clauses are the space-joined runs of consecutive
\* sentences, in the order of the input, no sentence in two runs.
C4_ClausesLongAndInOrder ==
    seg_pc = "done" =>
        /\ \A k \in 1..Len(seg_clauses) : Len(Strip(seg_clauses[k])) > 40
        /\ AreRunsOf(seg_clauses, 1, seg_sents, 1)

\* C4 witness: three sentences give two clauses, the first a join of two
\* short sentences.
C4_Witness ==
    /\ seg_pc = "done"
    /\ Len(seg_sents) = 3
    /\ Len(seg_clauses) = 2
    /\ seg_clauses[1] = seg_sents[1] \o <<SP>> \o seg_sents[2]
    /\ seg_clauses[2] = seg_sents[3]

\* C8: one call per prompt, in prompt order; one recommendation per prompt;
\* a failed call leaves the placeholder at its own position only, and the
\* other positions hold what they would hold had that call succeeded.
C8_FailureIsLocal ==
    rec_pc = "done" =>
        /\ rec_result.calls = rec_prompts
        /\ Len(rec_result.recommendations) = Len(rec_prompts)
        /\ \A i \in 1..Len(rec_prompts) :
              Raises(rec_responses[i]) => rec_result.recommendations[i] = ErrorRecommendation
        /\ \A i \in 1..Len(rec_prompts) : \A ok \in Responses \ {Raise} :
              Raises(rec_responses[i]) =>
                  \A j \in (1..Len(rec_prompts)) \ {i} :
                      rec_result.recommendations[j]
                          = generate_local_recommendation(
                                rec_prompts, [rec_responses EXCEPT ![i] = ok])
                                .recommendations[j]

\* C8 witness: the first of two calls fails, the second is still made and
\* its text is returned.
C8_Witness ==
    /\ rec_pc = "done"
    /\ Len(rec_prompts) = 2
    /\ Raises(rec_responses[1])
    /\ rec_result.calls = rec_prompts
    /\ rec_result.recommendations = <<ErrorRecommendation, <<"o", "k">>>>

\* the number of lines of a file: its line breaks
NumLines(file) == Cardinality({i \in 1..Len(file) : file[i] = NL})

\* a request was answered with 200 in this step
PostRecorded == fb_count' = fb_count + 1 /\ fb_last'.status = 200

\* C6: every POST /feedback answered with 200 leaves the existing content
\* of the log as it is and appends exactly one line after it, which starts
\* with the timestamp and holds the payload.
C6_OneLinePerPost ==
    [][PostRecorded =>
         /\ IsPrefix(fb_file, fb_file')
         /\ NumLines(fb_file') = NumLines(fb_file) + 1
         /\ LET added == SubSeq(fb_file', Len(fb_file) + 1, Len(fb_file'))
            IN  /\ IsPrefix(IsoFormat(fb_last'.now[1]), added)
                /\ Contains(added, PyStr(fb_last'.data))
                /\ added[Len(added)] = NL]_vars

Answered(q) == q.pc \in {"done", "exported"}

Valid(q) == q.has_file /\ q.filename # <<>> /\ allowed_file(q.filename)

Status(q) == q.response[1].status

C5_UploadResultExports ==
    \A r \in DOMAIN reqs :
        reqs[r].pc = "exported" =>
            /\ RequiredKeys \subseteq DOMAIN reqs[r].response[1].body
            /\ \A k \in 1..Len(reqs[r].response[1].body.clauses) :
                  ClauseKeys \subseteq DOMAIN reqs[r].response[1].body.clauses[k]
            /\ reqs[r].export[1].status = 200
            /\ reqs[r].export[1].pdf > 0

\* what request r would be answered had it run alone
AloneText(q) ==
    Normalise(extract_text(q.saved_as[1], SaveFile(<<>>, q.saved_as[1], q.content)))

\* C9: the analysis a POST /upload returns is that of the request's own
\* file: its text, its clauses and its size, whatever other requests do.
C9_ResultOfOwnFile ==
    \A r \in DOMAIN reqs :
        LET q == reqs[r]
        IN  (Answered(q) /\ Status(q) = 200) =>
                /\ q.response[1].body.extractedText = AloneText(q)
                /\ q.response[1].body.fileSize = Some(q.content.size)
                /\ q.response[1].body.clauses
                       = analyze_clauses(AloneText(q), ContractType, q.env).clauses

====
